---- MODULE Spec2Model ----
(***************************************************************************)
(* A model of xml-parser.ts (src/src/core.ts): xml_to_json and the         *)
(* functions it is built from.  A text is a sequence of one-character      *)
(* strings and every index is 0-based, as in the source.  A value of the   *)
(* program is a record [kind, v]:                                          *)
(*   "str"  v = the characters          "num"  v = <<mantissa, exponent>>  *)
(*   "inf"  v = <<sign>>                "null" v = <<>>                    *)
(*   "map"  v = sequence of [key, value] in enumeration order              *)
(*   "arr"  v = sequence of values                                         *)
(* A finite Number is kept as mantissa * 10^exponent with a mantissa that  *)
(* does not end in 0, so two numerals denote the same Number exactly when  *)
(* their records are equal.                                                *)
(***************************************************************************)
EXTENDS Integers, Sequences, FiniteSets, TLC

(* ------------------------------------------------------------------ *)
(* Bounds of the model                                                 *)
(* ------------------------------------------------------------------ *)
MaxElems == 4
MaxMerges == 4
MaxTextLen == 3
MaxPieces == 2
MaxBlocks == 2
MaxKids == 2
MaxTags == 3

(* ------------------------------------------------------------------ *)
(* Strings                                                             *)
(* ------------------------------------------------------------------ *)
\* the white space and line terminators that trim() and unary plus strip
WhiteSpace == {" ", "\t", "\n", "\r", "\f"}

Digits == <<"0", "1", "2", "3", "4", "5", "6", "7", "8", "9">>

HexLetters == <<"a", "b", "c", "d", "e", "f">>

HexLettersUpper == <<"A", "B", "C", "D", "E", "F">>

Null == [kind |-> "null", v |-> <<>>]

Str(s) == [kind |-> "str", v |-> s]

Map(entries) == [kind |-> "map", v |-> entries]

Arr(items) == [kind |-> "arr", v |-> items]

Infinity(sign) == [kind |-> "inf", v |-> <<sign>>]

Min(S) == CHOOSE i \in S : \A j \in S : i <= j

\* String.prototype.indexOf(pat, from): the first index >= from where pat occurs, or -1
IndexOf(s, pat, from) ==
  LET found == {i \in from .. (Len(s) - Len(pat)) : SubSeq(s, i + 1, i + Len(pat)) = pat}
  IN IF found = {} THEN -1 ELSE Min(found)

Includes(s, pat) == IndexOf(s, pat, 0) # -1

\* String.prototype.slice(from, to) for 0 <= from, 0 <= to
Slice(s, from, to) ==
  LET t == IF to > Len(s) THEN Len(s) ELSE to
  IN IF from >= t THEN <<>> ELSE SubSeq(s, from + 1, t)

SliceFrom(s, from) == Slice(s, from, Len(s))

RECURSIVE TrimStart(_)
TrimStart(s) ==
  IF s # <<>> /\ Head(s) \in WhiteSpace THEN TrimStart(Tail(s)) ELSE s

RECURSIVE TrimEnd(_)
TrimEnd(s) ==
  IF s # <<>> /\ s[Len(s)] \in WhiteSpace THEN TrimEnd(SubSeq(s, 1, Len(s) - 1)) ELSE s

\* String.prototype.trim()
Trim(s) == TrimEnd(TrimStart(s))

(* ------------------------------------------------------------------ *)
(* Numbers: the unary plus of JavaScript applied to a string           *)
(* ------------------------------------------------------------------ *)
RECURSIVE Pow(_, _)
Pow(b, n) == IF n = 0 THEN 1 ELSE b * Pow(b, n - 1)

PosIn(seq, c) == IF \E i \in DOMAIN seq : seq[i] = c THEN Min({i \in DOMAIN seq : seq[i] = c}) ELSE 0

\* the value of one digit in a radix, or -1 when it is no digit of that radix
DigitValue(c, radix) ==
  LET d == IF PosIn(Digits, c) # 0 THEN PosIn(Digits, c) - 1
           ELSE IF PosIn(HexLetters, c) # 0 THEN PosIn(HexLetters, c) + 9
           ELSE IF PosIn(HexLettersUpper, c) # 0 THEN PosIn(HexLettersUpper, c) + 9
           ELSE -1
  IN IF d < radix THEN d ELSE -1

AllDigits(s, radix) == \A i \in DOMAIN s : DigitValue(s[i], radix) # -1

RECURSIVE DigitsValue(_, _)
DigitsValue(s, radix) ==
  IF s = <<>> THEN 0
  ELSE DigitsValue(SubSeq(s, 1, Len(s) - 1), radix) * radix + DigitValue(s[Len(s)], radix)

RECURSIVE NumDigits(_)
NumDigits(n) == IF n < 10 THEN 1 ELSE 1 + NumDigits(n \div 10)

RECURSIVE Normalize(_, _)
Normalize(m, e) ==
  IF m = 0 THEN <<0, 0>>
  ELSE IF m % 10 = 0 THEN Normalize(m \div 10, e + 1)
  ELSE <<m, e>>

\* the four leading decimal digits of a mantissa (padded with zeros)
Lead4(m) ==
  LET d == NumDigits(m)
  IN IF d <= 4 THEN m * Pow(10, 4 - d) ELSE m \div Pow(10, d - 4)

\* the double nearest to sign * m * 10^e: beyond 1.7976931348623157e308 it is
\* Infinity, below the smallest subnormal 5e-324 it is 0
Num(sign, m, e) ==
  LET n == Normalize(m, e)
      top == NumDigits(n[1]) + n[2]
  IN IF n[1] = 0 THEN [kind |-> "num", v |-> <<0, 0>>]
     ELSE IF top > 309 \/ (top = 309 /\ Lead4(n[1]) >= 1798) THEN Infinity(sign)
     ELSE IF top < -323 THEN [kind |-> "num", v |-> <<0, 0>>]
     ELSE [kind |-> "num", v |-> <<sign * n[1], n[2]>>]

NaN == [kind |-> "nan", v |-> <<>>]

InfinityWord == <<"I", "n", "f", "i", "n", "i", "t", "y">>

\* ExponentPart without its e: an optional sign and at least one digit
IsExponent(s) ==
  LET d == IF s # <<>> /\ Head(s) \in {"+", "-"} THEN Tail(s) ELSE s
  IN d # <<>> /\ AllDigits(d, 10)

ExponentValue(s) ==
  IF Head(s) = "-" THEN 0 - DigitsValue(Tail(s), 10)
  ELSE IF Head(s) = "+" THEN DigitsValue(Tail(s), 10)
  ELSE DigitsValue(s, 10)

\* StrUnsignedDecimalLiteral: Infinity, or digits with at most one "." and an
\* optional exponent, with at least one digit before the exponent
UnsignedDecimal(sign, s) ==
  LET epos == IF PosIn(s, "e") = 0 THEN PosIn(s, "E")
              ELSE IF PosIn(s, "E") = 0 THEN PosIn(s, "e")
              ELSE Min({PosIn(s, "e"), PosIn(s, "E")})
      mant == IF epos = 0 THEN s ELSE SubSeq(s, 1, epos - 1)
      expo == IF epos = 0 THEN <<>> ELSE SubSeq(s, epos + 1, Len(s))
      dot == PosIn(mant, ".")
      int == IF dot = 0 THEN mant ELSE SubSeq(mant, 1, dot - 1)
      frac == IF dot = 0 THEN <<>> ELSE SubSeq(mant, dot + 1, Len(mant))
      e == IF epos = 0 THEN 0 ELSE ExponentValue(expo)
  IN IF s = InfinityWord THEN Infinity(sign)
     ELSE IF /\ AllDigits(int, 10) /\ AllDigits(frac, 10)
             /\ int \o frac # <<>>
             /\ (epos # 0 => IsExponent(expo))
          THEN Num(sign, DigitsValue(int \o frac, 10), e - Len(frac))
     ELSE NaN

\* NonDecimalIntegerLiteral: 0x, 0o or 0b (either case) and at least one digit
NonDecimalRadix(s) ==
  IF Len(s) < 3 \/ s[1] # "0" THEN 0
  ELSE IF s[2] \in {"x", "X"} THEN 16
  ELSE IF s[2] \in {"o", "O"} THEN 8
  ELSE IF s[2] \in {"b", "B"} THEN 2
  ELSE 0

\* StringToNumber: what `+text` evaluates to
ToNumber(text) ==
  LET s == Trim(text)
      radix == NonDecimalRadix(s)
  IN IF s = <<>> THEN Num(1, 0, 0)
     ELSE IF radix # 0
       THEN IF AllDigits(SubSeq(s, 3, Len(s)), radix)
            THEN Num(1, DigitsValue(SubSeq(s, 3, Len(s)), radix), 0)
            ELSE NaN
     ELSE IF Head(s) = "-" THEN UnsignedDecimal(-1, Tail(s))
     ELSE IF Head(s) = "+" THEN UnsignedDecimal(1, Tail(s))
     ELSE UnsignedDecimal(1, s)

parse_text_content(text) ==
  IF text = <<>> THEN Str(<<>>)
  ELSE LET number == ToNumber(text)
       IN IF number = NaN THEN Str(text) ELSE number

(* ------------------------------------------------------------------ *)
(* Properties: the Map of one element, and the object made from it     *)
(* ------------------------------------------------------------------ *)
Has(properties, tag_name) == \E i \in DOMAIN properties : properties[i].key = tag_name

KeyIndex(properties, tag_name) == Min({i \in DOMAIN properties : properties[i].key = tag_name})

Get(properties, tag_name) == properties[KeyIndex(properties, tag_name)].value

\* add_property without its Array.isArray branch: a third value wraps the array again
add_property_rewrap(properties, tag_name, value) ==
  IF ~Has(properties, tag_name)
  THEN Append(properties, [key |-> tag_name, value |-> value])
  ELSE LET i == KeyIndex(properties, tag_name)
       IN [properties EXCEPT ![i].value = Arr(<<properties[i].value, value>>)]

\* add_property as a plain properties.set: a repeated tag replaces the stored value
add_property_overwrite(properties, tag_name, value) ==
  IF ~Has(properties, tag_name)
  THEN Append(properties, [key |-> tag_name, value |-> value])
  ELSE [properties EXCEPT ![KeyIndex(properties, tag_name)].value = value]

add_property(properties, tag_name, value) ==
  IF ~Has(properties, tag_name)
  THEN Append(properties, [key |-> tag_name, value |-> value])
  ELSE LET i == KeyIndex(properties, tag_name)
           existing_value == properties[i].value
       IN IF existing_value.kind = "arr"
          THEN [properties EXCEPT ![i].value = Arr(Append(existing_value.v, value))]
          ELSE [properties EXCEPT ![i].value = Arr(<<existing_value, value>>)]

\* a key that an object enumerates as an integer index: a canonical numeral (of
\* up to 9 digits here; the limit 2^32 - 2 lies beyond the tag names parsed)
IsArrayIndex(key) ==
  /\ key # <<>>
  /\ Len(key) <= 9
  /\ AllDigits(key, 10)
  /\ (Len(key) = 1 \/ key[1] # "0")

RECURSIVE SortByIndex(_)
SortByIndex(entries) ==
  IF entries = <<>> THEN <<>>
  ELSE LET least == Min({DigitsValue(entries[i].key, 10) : i \in DOMAIN entries})
           at == Min({i \in DOMAIN entries : DigitsValue(entries[i].key, 10) = least})
       IN <<entries[at]>> \o
          SortByIndex(SubSeq(entries, 1, at - 1) \o SubSeq(entries, at + 1, Len(entries)))

\* an object that would enumerate every key in insertion order
ObjectFromEntries_insertion(properties) == Map(properties)

\* Object.fromEntries(map): an object enumerates its integer-index keys first, in
\* ascending order, and then its other keys in insertion order
ObjectFromEntries(properties) ==
  Map(SortByIndex(SelectSeq(properties, LAMBDA en : IsArrayIndex(en.key)))
      \o SelectSeq(properties, LAMBDA en : ~IsArrayIndex(en.key)))

(* ------------------------------------------------------------------ *)
(* The machine: one record holds the state of a call of xml_to_json    *)
(* ------------------------------------------------------------------ *)
cdata_start_pattern == <<"<", "!", "[", "C", "D", "A", "T", "A", "[">>

cdata_end_pattern == <<"]", "]", ">">>

comment_start_pattern == <<"<", "!", "-", "-">>

comment_end_pattern == <<"-", "-", ">">>

metadata_start_pattern == <<"<", "?">>

metadata_end_pattern == <<"?", ">">>

NoError == [kind |-> "none", has_offset |-> FALSE, offset |-> 0]

\* the state at the call xml_to_json(text)
Start(text) ==
  [pc |-> "comments", xml |-> text, offset |-> 0, properties |-> <<>>,
   stack |-> <<>>, arg |-> 0, result |-> Null, error |-> NoError]

\* throw new Error(...) with a message that leaves the offset out
Throw_bare(m, kind, offset) ==
  [m EXCEPT !.pc = "error", !.error = [kind |-> kind, has_offset |-> FALSE, offset |-> 0]]

\* throw new Error(...) with the offset of the message
Throw(m, kind, offset) ==
  [m EXCEPT !.pc = "error", !.error = [kind |-> kind, has_offset |-> TRUE, offset |-> offset]]

\* throw new Error('Invalid XML: no element found')
ThrowNoOffset(m, kind) ==
  [m EXCEPT !.pc = "error", !.error = [kind |-> kind, has_offset |-> FALSE, offset |-> 0]]

\* one iteration of the loop of remove_xml_comments that takes the rest of the text
\* from the start of the comment instead of its end
remove_xml_comments_keep(m) ==
  LET start_index == IndexOf(m.xml, comment_start_pattern, 0)
      end_index == IndexOf(m.xml, comment_end_pattern, start_index)
  IN IF start_index = -1 THEN [m EXCEPT !.pc = "metadata"]
     ELSE IF end_index = -1 THEN Throw(m, "CommentUnterminated", start_index)
     ELSE [m EXCEPT !.xml = Slice(m.xml, 0, start_index) \o SliceFrom(m.xml, start_index)]

\* one iteration of the loop of remove_xml_comments
remove_xml_comments(m) ==
  LET start_index == IndexOf(m.xml, comment_start_pattern, 0)
      end_index == IndexOf(m.xml, comment_end_pattern, start_index)
  IN IF start_index = -1 THEN [m EXCEPT !.pc = "metadata"]
     ELSE IF end_index = -1 THEN Throw(m, "CommentUnterminated", start_index)
     ELSE [m EXCEPT !.xml = Slice(m.xml, 0, start_index)
                            \o SliceFrom(m.xml, end_index + Len(comment_end_pattern))]

\* one iteration of the loop of remove_xml_metadata
remove_xml_metadata(m) ==
  LET start_index == IndexOf(m.xml, metadata_start_pattern, 0)
      end_index == IndexOf(m.xml, metadata_end_pattern, start_index)
  IN IF start_index = -1 THEN [m EXCEPT !.pc = "begin"]
     ELSE IF end_index = -1 THEN Throw(m, "MetadataUnterminated", start_index)
     ELSE [m EXCEPT !.xml = Slice(m.xml, 0, start_index)
                            \o SliceFrom(m.xml, end_index + Len(metadata_end_pattern))]

\* xml_to_json without its check for "<": the first call of parse_xml_element is
\* made whatever the text
xml_to_json_begin_unchecked(m) ==
  [m EXCEPT !.pc = "call", !.properties = <<>>, !.offset = 0, !.arg = 0]

\* xml_to_json from the check for "<" to the first call of parse_xml_element
xml_to_json_begin(m) ==
  LET metadata_start_index == IndexOf(m.xml, metadata_start_pattern, 0)
      metadata_end_index == IndexOf(m.xml, metadata_end_pattern, metadata_start_index)
  IN IF ~Includes(m.xml, <<"<">>) THEN ThrowNoOffset(m, "EmptyDocument")
     ELSE IF metadata_start_index = -1
       THEN [m EXCEPT !.pc = "call", !.properties = <<>>, !.offset = 0, !.arg = 0]
     ELSE IF metadata_end_index = -1
       THEN Throw(m, "MetadataUnterminated", metadata_start_index)
     ELSE [m EXCEPT !.pc = "call", !.properties = <<>>,
                    !.offset = metadata_end_index + 2, !.arg = metadata_end_index + 2]

\* parse_xml_element reporting a missing closing tag with the offset it was called
\* with instead of the content start
parse_xml_element_open_stale(m) ==
  LET tag_name_start_index == IndexOf(m.xml, <<"<">>, m.arg)
      tag_name_end_index == IndexOf(m.xml, <<">">>, tag_name_start_index + 1)
      tag_name == Slice(m.xml, tag_name_start_index + 1, tag_name_end_index)
      content_start_index == tag_name_end_index + 1
      closing_tag == <<"<", "/">> \o tag_name \o <<">">>
      element_end_index == IndexOf(m.xml, closing_tag, content_start_index)
  IN IF tag_name_start_index = -1 THEN Throw(m, "ElementOpenNotFound", m.arg)
     ELSE IF tag_name_end_index = -1
       THEN Throw(m, "ElementOpenUnterminated", tag_name_start_index + 1)
     ELSE IF element_end_index = -1
       THEN Throw(m, "ElementCloseNotFound", m.arg)
     ELSE [m EXCEPT !.pc = "content",
                    !.stack = Append(m.stack,
                      [tag_name |-> tag_name,
                       content_start_index |-> content_start_index,
                       closing_tag |-> closing_tag,
                       element_end_index |-> element_end_index,
                       properties |-> <<>>,
                       text_content |-> Null,
                       offset |-> content_start_index])]

\* parse_xml_element(xml, m.arg) up to its content loop: a new frame, or a throw
parse_xml_element_open(m) ==
  LET tag_name_start_index == IndexOf(m.xml, <<"<">>, m.arg)
      tag_name_end_index == IndexOf(m.xml, <<">">>, tag_name_start_index + 1)
      tag_name == Slice(m.xml, tag_name_start_index + 1, tag_name_end_index)
      content_start_index == tag_name_end_index + 1
      closing_tag == <<"<", "/">> \o tag_name \o <<">">>
      element_end_index == IndexOf(m.xml, closing_tag, content_start_index)
  IN IF tag_name_start_index = -1 THEN Throw(m, "ElementOpenNotFound", m.arg)
     ELSE IF tag_name_end_index = -1
       THEN Throw(m, "ElementOpenUnterminated", tag_name_start_index + 1)
     ELSE IF element_end_index = -1
       THEN Throw(m, "ElementCloseNotFound", content_start_index)
     ELSE [m EXCEPT !.pc = "content",
                    !.stack = Append(m.stack,
                      [tag_name |-> tag_name,
                       content_start_index |-> content_start_index,
                       closing_tag |-> closing_tag,
                       element_end_index |-> element_end_index,
                       properties |-> <<>>,
                       text_content |-> Null,
                       offset |-> content_start_index])]

\* parse_cdata(xml, offset): [content, offset], or threw with the start index
parse_cdata(xml, offset) ==
  LET next_index == IndexOf(xml, <<"<">>, offset)
      start_index == IndexOf(xml, cdata_start_pattern, offset)
      payload == start_index + Len(cdata_start_pattern)
      end_index == IndexOf(xml, cdata_end_pattern, payload)
  IN IF next_index = -1 \/ start_index = -1 \/ next_index < start_index
     THEN [threw |-> FALSE, content |-> Null, offset |-> offset]
     ELSE IF end_index = -1
       THEN [threw |-> TRUE, content |-> Null, offset |-> start_index]
     ELSE [threw |-> FALSE, content |-> Str(Slice(xml, payload, end_index)),
           offset |-> end_index + Len(cdata_end_pattern)]

Top(m) == m.stack[Len(m.stack)]

\* one iteration of the CDATA loop of parse_xml_element that does not break
parse_xml_element_cdata(m) ==
  LET top == Top(m)
      cdata == parse_cdata(m.xml, top.offset)
      text_content == IF top.text_content = Null THEN <<>> ELSE top.text_content.v
  IN IF cdata.threw THEN Throw(m, "CDataUnterminated", cdata.offset)
     ELSE [m EXCEPT !.stack[Len(m.stack)].text_content = Str(text_content \o cdata.content.v),
                    !.stack[Len(m.stack)].offset = cdata.offset]

\* the content loop after the CDATA loop broke: the element ends, a child
\* element is parsed, or there is no "<" left
parse_xml_element_next(m) ==
  LET top == Top(m)
      next_tag_index == IndexOf(m.xml, <<"<">>, top.offset)
  IN IF next_tag_index = -1 THEN Throw(m, "ElementNextNotFound", top.offset)
     ELSE IF next_tag_index = top.element_end_index
       THEN [m EXCEPT !.pc = "return",
                      !.stack[Len(m.stack)].offset = top.element_end_index + Len(top.closing_tag)]
     ELSE [m EXCEPT !.pc = "call", !.arg = next_tag_index]

\* what parse_xml_element returns for its finished frame
Element(xml, frame) ==
  [tag_name |-> frame.tag_name,
   properties |-> ObjectFromEntries(frame.properties),
   text_content |->
     IF frame.properties = <<>> /\ frame.text_content = Null
     THEN Str(Trim(Slice(xml, frame.content_start_index, frame.element_end_index)))
     ELSE frame.text_content,
   offset |-> frame.offset]

\* the value of a child with its properties looked at first
ChildValue_properties_first(child) ==
  IF child.properties # Map(<<>>) THEN child.properties
  ELSE IF child.text_content # Null THEN parse_text_content(child.text_content.v)
  ELSE child.properties

\* the value a parent stores for a child element
ChildValue(child) ==
  IF child.text_content # Null THEN parse_text_content(child.text_content.v)
  ELSE child.properties

\* parse_xml_element returns to the content loop of the parent element
parse_xml_element_child(m) ==
  LET child == Element(m.xml, Top(m))
      n == Len(m.stack) - 1
  IN [m EXCEPT !.pc = "content",
               !.stack = [SubSeq(m.stack, 1, n) EXCEPT
                  ![n].properties = add_property(m.stack[n].properties, child.tag_name,
                                                 ChildValue(child)),
                  ![n].offset = child.offset]]

\* the value xml_to_json stores for a root element
RootValue(element) == element.properties

\* parse_xml_element returns to the loop of xml_to_json
xml_to_json_root(m) ==
  LET element == Element(m.xml, Top(m))
      properties == add_property(m.properties, element.tag_name, RootValue(element))
      offset == element.offset
  IN IF offset = Len(m.xml) \/ Len(Trim(SliceFrom(m.xml, offset))) = 0
     THEN [m EXCEPT !.pc = "done", !.stack = <<>>, !.properties = properties,
                    !.offset = offset, !.result = ObjectFromEntries(properties)]
     ELSE [m EXCEPT !.pc = "call", !.stack = <<>>, !.properties = properties,
                    !.offset = offset, !.arg = offset]

\* the CDATA loop of the top frame takes another section (or throws)
CdataNext(m) ==
  LET cdata == parse_cdata(m.xml, Top(m).offset)
  IN cdata.threw \/ cdata.content # Null

Step(m) ==
  CASE m.pc = "comments" -> remove_xml_comments(m)
    [] m.pc = "metadata" -> remove_xml_metadata(m)
    [] m.pc = "begin" -> xml_to_json_begin(m)
    [] m.pc = "call" -> parse_xml_element_open(m)
    [] m.pc = "content" /\ CdataNext(m) -> parse_xml_element_cdata(m)
    [] m.pc = "content" /\ ~CdataNext(m) -> parse_xml_element_next(m)
    [] m.pc = "return" /\ Len(m.stack) > 1 -> parse_xml_element_child(m)
    [] m.pc = "return" /\ Len(m.stack) = 1 -> xml_to_json_root(m)

Finished(m) == m.pc \in {"done", "error"}

RECURSIVE Run(_)
Run(m) == IF Finished(m) THEN m ELSE Run(Step(m))

\* the outcome of xml_to_json(text): the returned object, or the error thrown
xml_to_json(text) ==
  LET m == Run(Start(text))
  IN [threw |-> m.pc = "error", value |-> m.result, error |-> m.error]

(* ------------------------------------------------------------------ *)
(* Input documents.  A document is a sequence of items; an item is a   *)
(* record [t, name, pad, items, s]:                                    *)
(*   "elem"    <name pad> items </name>      "self"  <name pad/>       *)
(*   "text"    s                             "cdata" <![CDATA[ s ]]>   *)
(*   "comment" <!-- s -->                    "meta"  <? s ?>           *)
(*   "raw"     s, any characters: a text that is no well-formed document *)
(* ------------------------------------------------------------------ *)
Elem(name, items) == [t |-> "elem", name |-> name, pad |-> <<>>, items |-> items, s |-> <<>>]

ElemPad(name, pad, items) == [t |-> "elem", name |-> name, pad |-> pad, items |-> items, s |-> <<>>]

SelfClosing(name, pad) == [t |-> "self", name |-> name, pad |-> pad, items |-> <<>>, s |-> <<>>]

Text(s) == [t |-> "text", name |-> <<>>, pad |-> <<>>, items |-> <<>>, s |-> s]

CData(s) == [t |-> "cdata", name |-> <<>>, pad |-> <<>>, items |-> <<>>, s |-> s]

Comment(s) == [t |-> "comment", name |-> <<>>, pad |-> <<>>, items |-> <<>>, s |-> s]

Meta(s) == [t |-> "meta", name |-> <<>>, pad |-> <<>>, items |-> <<>>, s |-> s]

Raw(s) == [t |-> "raw", name |-> <<>>, pad |-> <<>>, items |-> <<>>, s |-> s]

RECURSIVE Render(_)
\* the text of a document
Render(items) ==
  IF items = <<>> THEN <<>>
  ELSE LET it == Head(items)
           one == CASE it.t = "elem" ->
                         <<"<">> \o it.name \o it.pad \o <<">">> \o Render(it.items)
                         \o <<"<", "/">> \o it.name \o <<">">>
                    [] it.t = "self" -> <<"<">> \o it.name \o it.pad \o <<"/", ">">>
                    [] it.t \in {"text", "raw"} -> it.s
                    [] it.t = "cdata" -> cdata_start_pattern \o it.s \o cdata_end_pattern
                    [] it.t = "comment" -> comment_start_pattern \o it.s \o comment_end_pattern
                    [] it.t = "meta" -> metadata_start_pattern \o it.s \o metadata_end_pattern
       IN one \o Render(Tail(items))

IsElement(it) == it.t \in {"elem", "self"}

Elements(items) == SelectSeq(items, IsElement)

RECURSIVE Flatten(_)
Flatten(seqs) == IF seqs = <<>> THEN <<>> ELSE Head(seqs) \o Flatten(Tail(seqs))

Names == {<<"a">>, <<"b">>}

\* the bodies of the leaves of the tree documents
LeafBodies == {<<Text(<<"1">>)>>, <<Text(<<" ">>)>>}

RECURSIVE Trees(_)
RECURSIVE Forests(_)
\* the elements made of exactly n elements, and the sequences of them
Trees(n) ==
  IF n = 1 THEN {Elem(name, body) : name \in Names, body \in LeafBodies}
  ELSE {Elem(name, kids) : name \in Names, kids \in Forests(n - 1)}

Forests(n) ==
  IF n = 0 THEN {<<>>}
  ELSE UNION {{<<t>> \o f : t \in Trees(k), f \in Forests(n - k)} : k \in 1 .. n}

TreeDocs == UNION {Forests(n) : n \in 1 .. MaxElems}

\* the texts of at most n characters over an alphabet
RECURSIVE Texts(_, _)
Texts(alphabet, n) ==
  IF n = 0 THEN {<<>>}
  ELSE Texts(alphabet, n - 1) \cup
       {Append(s, c) : s \in {x \in Texts(alphabet, n - 1) : Len(x) = n - 1}, c \in alphabet}

LeafAlphabet == {"0", "1", "2", "e", "x", "a", "-", ".", " "}

\* one leaf x, as the only child of a root r or as the root itself
LeafDocs ==
  {<<Elem(<<"r">>, <<Elem(<<"x">>, <<Text(s)>>)>>)>> : s \in Texts(LeafAlphabet, MaxTextLen)}
  \cup {<<Elem(<<"x">>, <<Text(s)>>)>> : s \in Texts(LeafAlphabet, MaxTextLen)}

RECURSIVE Spaced(_)
\* the roots of a document with white space before each of them and after the last
Spaced(items) ==
  IF items = <<>> THEN <<Text(<<"\n">>)>>
  ELSE <<Text(<<" ">>), Head(items)>> \o Spaced(Tail(items))

SpacedDocs == {Spaced(d) : d \in TreeDocs}

\* the sequences of at most n members of a set
RECURSIVE SeqsUpTo(_, _)
SeqsUpTo(S, n) ==
  IF n = 0 THEN {<<>>}
  ELSE SeqsUpTo(S, n - 1) \cup
       {Append(q, x) : q \in {y \in SeqsUpTo(S, n - 1) : Len(y) = n - 1}, x \in S}

\* pieces of CDATA payloads: text, markup of other elements, the closing tags of
\* the enclosing elements, and the brackets of the CDATA markers
PayloadPieces ==
  {<<"1">>, <<" ">>, <<"c">>, <<"<", "t", ">">>, <<"<", "/", "t", ">">>,
   <<"<", "/", "m", ">">>, <<"<", "/", "r", ">">>, <<"<">>, <<"]">>, <<">">>,
   cdata_start_pattern}

Payloads == {Flatten(q) : q \in SeqsUpTo(PayloadPieces, MaxPieces)}

\* an element m whose content is one CDATA section, the only child of a root r
CDataDocs == {<<Elem(<<"r">>, <<Elem(<<"m">>, <<CData(p)>>)>>)>> : p \in Payloads}

\* comment and metadata blocks, properly terminated
Blocks ==
  {Comment(<<" ", "c", " ">>), Comment(<<>>), Comment(<<">">>),
   Meta(<<"m">>), Meta(<<">">>)}

\* the places of a document where a block may stand: before the root, before,
\* inside and after its first child, inside the text of that child, after the root
Decorated(b) ==
  <<b[1],
    Elem(<<"r">>,
         <<b[2],
           Elem(<<"x">>, <<b[3], Text(<<"1">>), b[4], Text(<<"2">>), b[5]>>),
           b[6],
           Elem(<<"y">>, <<Text(<<"3">>)>>)>>),
    b[7]>>

NoBlock == Text(<<>>)

DecoratedDocs ==
  {Decorated(b) : b \in {c \in [1 .. 7 -> Blocks \cup {NoBlock}] :
                           Cardinality({i \in 1 .. 7 : c[i] # NoBlock}) <= MaxBlocks}}

\* self-closing elements, with and without a space before the "/"
SelfClosingKids ==
  {SelfClosing(<<"a">>, <<>>), SelfClosing(<<"a">>, <<" ">>), SelfClosing(<<"b">>, <<>>),
   Elem(<<"b">>, <<Text(<<"1">>)>>)}

SelfClosingDocs ==
  {d \in SeqsUpTo(SelfClosingKids, MaxKids) : d # <<>>}
  \cup {<<Elem(<<"r">>, kids)>> : kids \in SeqsUpTo(SelfClosingKids, MaxKids) \ {<<>>}}

\* opening tags written with white space after the tag name
PaddedKids ==
  {ElemPad(<<"x">>, <<" ">>, <<Text(<<" ", "J", " ">>)>>), Elem(<<"y">>, <<Text(<<"1">>)>>)}

PaddedDocs ==
  {<<ElemPad(<<"r">>, pad, kids)>> :
     pad \in {<<>>, <<" ">>}, kids \in SeqsUpTo(PaddedKids, MaxKids) \ {<<>>}}

\* the documents that are cut short
BrokenBases ==
  UNION {Forests(n) : n \in 1 .. MaxKids}
  \cup {<<Elem(<<"r">>, <<Elem(<<"m">>, <<CData(p)>>)>>)>> :
          p \in PayloadPieces \cup {<<"<", "/", "m", ">", "<", "/", "r", ">">>}}
  \cup {Decorated(b) : b \in {c \in [1 .. 7 -> Blocks \cup {NoBlock}] :
                                  Cardinality({i \in 1 .. 7 : c[i] # NoBlock}) = 1}}
  \cup {Decorated([i \in 1 .. 7 |-> IF i = 1 THEN Comment(<<" ", "c", " ">>)
                                    ELSE IF i = 7 THEN b ELSE NoBlock]) :
          b \in {Comment(<<" ", "c", " ">>), Meta(<<"m">>)}}

Prefixes(t) == {SubSeq(t, 1, k) : k \in 0 .. Len(t) - 1}

\* texts without any "<"
NoElementTexts == Texts({" ", "a", ">", "?"}, MaxTextLen)

\* a "<" and the rest of a block of one kind, with a whole block of the other kind
\* in between: <<??>!-- c --> and <<!---->?m?>
JoinedBlocks ==
  {<<"<">> \o Render(<<Meta(<<"?">>)>>) \o Tail(Render(<<Comment(<<" ", "c", " ">>)>>)),
   <<"<">> \o Render(<<Comment(<<>>)>>) \o Tail(Render(<<Meta(<<"m">>)>>))}

\* texts that are no well-formed documents: a document cut short at any place, a
\* root followed by characters that start no element, a text without any "<", a
\* root after two blocks of which one is put together by the removal of the other
RawDocs ==
  {<<Raw(t)>> : t \in UNION {Prefixes(Render(d)) : d \in BrokenBases}}
  \cup {<<Raw(Render(d) \o tail)>> : d \in Forests(1), tail \in {<<"x">>, <<" ", "x", " ">>}}
  \cup {<<Raw(t)>> : t \in NoElementTexts}
  \cup {<<Raw(head \o Render(d))>> : d \in Forests(1), head \in JoinedBlocks}

\* the content of an element that holds CDATA sections and child elements
MixedPieces ==
  {CData(<<"x">>), CData(<<"1">>), Elem(<<"k">>, <<Text(<<"1">>)>>), Elem(<<"j">>, <<Text(<<"2">>)>>)}

MixedBodies ==
  {q \in SeqsUpTo(MixedPieces, MaxTags) :
     (\E i \in DOMAIN q : q[i].t = "cdata") /\ (\E i \in DOMAIN q : q[i].t = "elem")}

\* an element m of mixed content, as the only child of a root r or as the root
MixedDocs ==
  {<<Elem(<<"r">>, <<Elem(<<"m">>, body)>>)>> : body \in MixedBodies}
  \cup {<<Elem(<<"m">>, body)>> : body \in MixedBodies}

\* tag names, some of them numerals
TagNames == {<<"b">>, <<"a">>, <<"2">>, <<"1">>, <<"0", "1">>}

TaggedLeaves == {Elem(name, <<Text(<<"1">>)>>) : name \in TagNames}

\* leaves with such names, as the children of a root r or as the roots
TaggedDocs ==
  {<<Elem(<<"r">>, kids)>> : kids \in SeqsUpTo(TaggedLeaves, MaxTags) \ {<<>>}}
  \cup (SeqsUpTo(TaggedLeaves, MaxTags) \ {<<>>})

(* ------------------------------------------------------------------ *)
(* The state machine                                                   *)
(* ------------------------------------------------------------------ *)
VARIABLES
  doc,         \* the document whose text is parsed
  text,        \* the argument of xml_to_json
  pc,          \* where the call is
  xml,         \* the local xml of xml_to_json
  offset,      \* the local offset of xml_to_json
  properties,  \* the local properties of xml_to_json; in MergeSpec, the map merged into
  stack,       \* the frames of the calls of parse_xml_element in progress
  arg,         \* the offset passed to the next call of parse_xml_element
  result,      \* the object returned
  error,       \* the error thrown
  merged       \* the (tag_name, value) pairs given to add_property for `properties`

vars == <<doc, text, pc, xml, offset, properties, stack, arg, result, error, merged>>

M ==
  [pc |-> pc, xml |-> xml, offset |-> offset, properties |-> properties,
   stack |-> stack, arg |-> arg, result |-> result, error |-> error]

Becomes(m) ==
  /\ pc' = m.pc
  /\ xml' = m.xml
  /\ offset' = m.offset
  /\ properties' = m.properties
  /\ stack' = m.stack
  /\ arg' = m.arg
  /\ result' = m.result
  /\ error' = m.error
  /\ UNCHANGED <<doc, text>>

\* a block, a root whose child holds two CDATA sections, and a second root
WholeDocs ==
  {<<b, Elem(<<"r">>, <<Elem(<<"m">>, <<CData(p), CData(q)>>)>>),
     Elem(<<"b">>, <<Text(<<"1">>)>>)>> :
     b \in {Comment(<<" ", "c", " ">>), Meta(<<"m">>)}, p \in {<<"1">>, <<" ">>},
     q \in {<<"1">>, <<" ">>}}

Docs ==
  TreeDocs \cup SpacedDocs \cup LeafDocs \cup CDataDocs \cup DecoratedDocs
  \cup SelfClosingDocs \cup PaddedDocs \cup RawDocs \cup MixedDocs \cup TaggedDocs
  \cup WholeDocs

Init ==
  /\ doc \in Docs
  /\ text = Render(doc)
  /\ pc = "comments"
  /\ xml = text
  /\ offset = 0
  /\ properties = <<>>
  /\ stack = <<>>
  /\ arg = 0
  /\ result = Null
  /\ error = NoError
  /\ merged = <<>>

RemoveXmlComments ==
  /\ pc = "comments"
  /\ Becomes(remove_xml_comments(M))
  /\ UNCHANGED merged

RemoveXmlMetadata ==
  /\ pc = "metadata"
  /\ Becomes(remove_xml_metadata(M))
  /\ UNCHANGED merged

XmlToJsonBegin ==
  /\ pc = "begin"
  /\ Becomes(xml_to_json_begin(M))
  /\ UNCHANGED merged

ParseXmlElementOpen ==
  /\ pc = "call"
  /\ Becomes(parse_xml_element_open(M))
  /\ UNCHANGED merged

ParseXmlElementCdata ==
  /\ pc = "content"
  /\ CdataNext(M)
  /\ Becomes(parse_xml_element_cdata(M))
  /\ UNCHANGED merged

ParseXmlElementNext ==
  /\ pc = "content"
  /\ ~CdataNext(M)
  /\ Becomes(parse_xml_element_next(M))
  /\ UNCHANGED merged

ParseXmlElementChild ==
  /\ pc = "return"
  /\ Len(stack) > 1
  /\ Becomes(parse_xml_element_child(M))
  /\ UNCHANGED merged

XmlToJsonRoot ==
  /\ pc = "return"
  /\ Len(stack) = 1
  /\ Becomes(xml_to_json_root(M))
  /\ merged' = Append(merged, <<Element(xml, Top(M)).tag_name, RootValue(Element(xml, Top(M)))>>)

Next ==
  \/ RemoveXmlComments
  \/ RemoveXmlMetadata
  \/ XmlToJsonBegin
  \/ ParseXmlElementOpen
  \/ ParseXmlElementCdata
  \/ ParseXmlElementNext
  \/ ParseXmlElementChild
  \/ XmlToJsonRoot

Spec == Init /\ [][Next]_vars

Done == pc = "done"

Failed == pc = "error"

(* ------------------------------------------------------------------ *)
(* add_property alone: any sequence of merges into one map             *)
(* ------------------------------------------------------------------ *)
\* the values a parent merges: coerced texts and the objects of child elements
MergeValues ==
  {Str(<<"x">>), Str(<<>>), Num(1, 1, 0), Map(<<>>),
   Map(<<[key |-> <<"a">>, value |-> Num(1, 1, 0)]>>)}

MergeInit ==
  /\ doc = <<>>
  /\ text = <<>>
  /\ pc = "merge"
  /\ xml = <<>>
  /\ offset = 0
  /\ properties = <<>>
  /\ stack = <<>>
  /\ arg = 0
  /\ result = Null
  /\ error = NoError
  /\ merged = <<>>

AddProperty ==
  /\ pc = "merge"
  /\ Len(merged) < MaxMerges
  /\ \E tag_name \in Names, value \in MergeValues :
       /\ properties' = add_property(properties, tag_name, value)
       /\ merged' = Append(merged, <<tag_name, value>>)
  /\ UNCHANGED <<doc, text, pc, xml, offset, stack, arg, result, error>>

MergeNext == AddProperty

MergeSpec == MergeInit /\ [][MergeNext]_vars

(* ------------------------------------------------------------------ *)
(* C2                                                                  *)
(* ------------------------------------------------------------------ *)
\* the values merged under one tag name, in the order of the merges
MergedValues(tag_name) ==
  LET hits == SelectSeq(merged, LAMBDA p : p[1] = tag_name)
  IN [i \in 1 .. Len(hits) |-> hits[i][2]]

\* C2: after any sequence of merges of non-array values into one map, a tag merged
\* once holds the merged value itself and a tag merged k >= 2 times holds an array
\* of exactly the k merged values, unchanged and in the order of the merges; a tag
\* never merged is absent and no tag name has two entries.
C2_MergeRule ==
  pc = "merge" =>
    /\ \A tag_name \in Names :
         LET values == MergedValues(tag_name)
         IN /\ Len(values) = 0 => ~Has(properties, tag_name)
            /\ Len(values) = 1 =>
                 Has(properties, tag_name) /\ Get(properties, tag_name) = values[1]
            /\ Len(values) >= 2 =>
                 Has(properties, tag_name) /\ Get(properties, tag_name) = Arr(values)
    /\ \A i, j \in DOMAIN properties : properties[i].key = properties[j].key => i = j
    /\ \A i \in DOMAIN properties :
         properties[i].value.kind = "arr" => Len(properties[i].value.v) >= 2

\* a tag merged three times with values of three kinds beside a tag merged once
C2_Witness ==
  /\ pc = "merge"
  /\ \E tag_name \in Names :
       /\ Len(MergedValues(tag_name)) = 3
       /\ {MergedValues(tag_name)[i].kind : i \in 1 .. 3} = {"str", "num", "map"}
       /\ Get(properties, tag_name).kind = "arr"
  /\ \E tag_name \in Names :
       /\ Len(MergedValues(tag_name)) = 1
       /\ Get(properties, tag_name).kind = "map"

(* ------------------------------------------------------------------ *)
(* What a document means: the value the specification gives it         *)
(* ------------------------------------------------------------------ *)
\* the text of a leaf body: its text and CDATA pieces, in order
LeafText(items) ==
  Flatten([i \in 1 .. Len(items) |->
             IF items[i].t \in {"text", "cdata"} THEN items[i].s ELSE <<>>])

HasChildElements(it) == Elements(it.items) # <<>>

RECURSIVE FirstNames(_, _)
\* the tag names of a sequence of elements in first-encounter order
FirstNames(elems, seen) ==
  IF elems = <<>> THEN seen
  ELSE IF \E i \in DOMAIN seen : seen[i] = Head(elems).name
    THEN FirstNames(Tail(elems), seen)
  ELSE FirstNames(Tail(elems), Append(seen, Head(elems).name))

\* the map of (tag name, value) pairs: one entry per tag name in first-encounter
\* order, a tag met once holds its value and a tag met again an array of them
MapOf(names, values) ==
  LET keys == FirstNames([i \in 1 .. Len(names) |-> [name |-> names[i]]], <<>>)
      at(key) == {i \in 1 .. Len(names) : names[i] = key}
      nth(S, k) == CHOOSE i \in S : Cardinality({j \in S : j < i}) = k - 1
      under(key) == [k \in 1 .. Cardinality(at(key)) |-> values[nth(at(key), k)]]
  IN Map([k \in 1 .. Len(keys) |->
            [key |-> keys[k],
             value |-> IF Len(under(keys[k])) = 1 THEN under(keys[k])[1]
                       ELSE Arr(under(keys[k]))]])

RECURSIVE Meaning(_)
RECURSIVE PropertiesOf(_)
\* the value stored for an element: an empty map for a self-closing element, the
\* coerced, trimmed text for a leaf, the map of its children otherwise
Meaning(it) ==
  IF it.t = "self" THEN Map(<<>>)
  ELSE IF ~HasChildElements(it) THEN parse_text_content(Trim(LeafText(it.items)))
  ELSE PropertiesOf(it.items)

\* the map made of the elements among the items
PropertiesOf(items) ==
  LET elems == Elements(items)
  IN MapOf([i \in 1 .. Len(elems) |-> elems[i].name],
           [i \in 1 .. Len(elems) |-> Meaning(elems[i])])

RECURSIVE IsPlain(_)
\* the dialect without attributes, mixed content, CDATA, comments or metadata:
\* every element holds either text alone or elements alone
IsPlain(items) ==
  \A i \in DOMAIN items :
    /\ items[i].t = "elem"
    /\ items[i].pad = <<>>
    /\ \/ \A k \in DOMAIN items[i].items : items[i].items[k].t = "text"
       \/ IsPlain(items[i].items)

RECURSIVE NamesIn(_)
\* the tag names of the elements of the items and of their descendants
NamesIn(items) ==
  UNION {IF IsElement(items[i]) THEN {items[i].name} \cup NamesIn(items[i].items) ELSE {}
         : i \in DOMAIN items}

RECURSIVE NoSelfNesting(_)
\* no element has a descendant of its own tag name
NoSelfNesting(items) ==
  \A i \in DOMAIN items :
    IsElement(items[i]) =>
      items[i].name \notin NamesIn(items[i].items) /\ NoSelfNesting(items[i].items)

\* no tag name is a canonical array index
NoIndexNames(items) == \A name \in NamesIn(items) : ~IsArrayIndex(name)

(* ------------------------------------------------------------------ *)
(* C1                                                                  *)
(* ------------------------------------------------------------------ *)
\* the object of a document when every root is stored as the map of its children
RootsAsMaps(items) ==
  LET elems == Elements(items)
  IN MapOf([i \in 1 .. Len(elems) |-> elems[i].name],
           [i \in 1 .. Len(elems) |-> PropertiesOf(elems[i].items)])

\* C1: for every properly nested document of the plain dialect, whatever the tag
\* names, xml_to_json returns, and the object holds for every element the map of
\* its child elements keyed by their tag names.
C1_NestedAnyNames ==
  (Finished(M) /\ IsPlain(doc)) => (Done /\ result = RootsAsMaps(doc))

\* the same for the documents in which no element has a descendant of its own name
\* and no tag name is an array index
C1_DistinctNesting ==
  (Finished(M) /\ IsPlain(doc) /\ NoSelfNesting(doc) /\ NoIndexNames(doc))
    => (Done /\ result = RootsAsMaps(doc))

(* ------------------------------------------------------------------ *)
(* C3                                                                  *)
(* ------------------------------------------------------------------ *)
IsWhite(s) == \A i \in DOMAIN s : s[i] \in WhiteSpace

\* n >= 1 plain root elements separated and surrounded by white space only
IsRootsDoc(items) ==
  /\ Elements(items) # <<>>
  /\ IsPlain(Elements(items))
  /\ \A i \in DOMAIN items : ~IsElement(items[i]) => items[i].t = "text" /\ IsWhite(items[i].s)

\* every root was returned to the loop of xml_to_json, in document order, and the
\* loop stopped with nothing but white space left
AllRootsParsed ==
  /\ Done
  /\ Len(merged) = Len(Elements(doc))
  /\ \A i \in DOMAIN merged : merged[i][1] = Elements(doc)[i].name
  /\ IsWhite(SliceFrom(xml, offset))

\* C3: for a text of n >= 1 well-formed roots with white space around them,
\* xml_to_json parses all n roots and merges every root into the top-level map as
\* a child is merged into its parent, same-named roots becoming an array.
C3_AllRootsMerged ==
  (Finished(M) /\ IsRootsDoc(doc)) => (AllRootsParsed /\ result = PropertiesOf(doc))

\* the loop of xml_to_json on the roots that parse_xml_element accepts: all n are
\* parsed and merged by add_property, each as the map of its children
C3_RootLoop ==
  (Finished(M) /\ IsRootsDoc(doc) /\ NoSelfNesting(doc) /\ NoIndexNames(doc))
    => (AllRootsParsed /\ result = RootsAsMaps(doc))

(* ------------------------------------------------------------------ *)
(* C4                                                                  *)
(* ------------------------------------------------------------------ *)
\* C4: a root is merged into the top-level map as a child is merged into its
\* parent: the coerced text when the root has text content (<x>12</x> gives
\* {x: 12}), its map of properties otherwise.
C4_RootMergedAsChild ==
  (Done /\ IsPlain(doc)) => result = PropertiesOf(doc)

\* what xml_to_json stores for a root: always the map of its child elements, the
\* empty map for a root that holds text
C4_RootStoredAsMap ==
  (Done /\ IsPlain(doc) /\ NoIndexNames(doc)) => result = RootsAsMaps(doc)

(* ------------------------------------------------------------------ *)
(* C5                                                                  *)
(* ------------------------------------------------------------------ *)
IsTextLeaf(it) ==
  /\ it.t = "elem"
  /\ it.pad = <<>>
  /\ Len(it.items) = 1
  /\ it.items[1].t = "text"

\* one text leaf, the root itself or the only child of the root
IsLeafDoc(items) ==
  /\ Len(items) = 1
  /\ items[1].t = "elem"
  /\ items[1].pad = <<>>
  /\ \/ IsTextLeaf(items[1])
     \/ Len(items[1].items) = 1 /\ IsTextLeaf(items[1].items[1])

IsChildLeafDoc(items) == IsLeafDoc(items) /\ ~IsTextLeaf(items[1])

TheLeaf(items) == IF IsTextLeaf(items[1]) THEN items[1] ELSE items[1].items[1]

LeafBody(items) == TheLeaf(items).items[1].s

\* the value the returned object holds for the leaf of a leaf document
LeafValue(items, object) ==
  IF IsTextLeaf(items[1]) THEN Get(object.v, items[1].name)
  ELSE Get(Get(object.v, items[1].name).v, TheLeaf(items).name)

\* the coercion as claimed: only a decimal or exponential numeral with an optional
\* sign becomes a Number
ClaimedCoercion(t) ==
  LET sign == IF t # <<>> /\ Head(t) = "-" THEN -1 ELSE 1
      digits == IF t # <<>> /\ Head(t) \in {"-", "+"} THEN Tail(t) ELSE t
  IN IF t = <<>> THEN Str(<<>>)
     ELSE IF digits # InfinityWord /\ UnsignedDecimal(sign, digits) # NaN
       THEN UnsignedDecimal(sign, digits)
     ELSE Str(t)

\* C5: the value of a text leaf is the coercion of its trimmed text: the empty
\* string stays the empty string, a decimal or exponential numeral with optional
\* sign becomes the Number it denotes, every other text is returned unchanged.
C5_LeafCoercion ==
  (Done /\ IsLeafDoc(doc)) => LeafValue(doc, result) = ClaimedCoercion(Trim(LeafBody(doc)))

\* for a leaf that is a child, the value differs from the claimed coercion only for
\* a text that is a 0x, 0o or 0b integer literal
C5_ChildLeafCoercion ==
  (Done /\ IsChildLeafDoc(doc)) =>
    /\ LeafValue(doc, result) = parse_text_content(Trim(LeafBody(doc)))
    /\ \/ LeafValue(doc, result) = ClaimedCoercion(Trim(LeafBody(doc)))
       \/ NonDecimalRadix(Trim(LeafBody(doc))) # 0

(* ------------------------------------------------------------------ *)
(* C6                                                                  *)
(* ------------------------------------------------------------------ *)
\* a root whose only child is an element whose content is one CDATA section, the
\* payload free of the CDATA end marker and of comment and metadata markers
IsCDataDoc(items) ==
  /\ Len(items) = 1
  /\ items[1].t = "elem"
  /\ Len(items[1].items) = 1
  /\ items[1].items[1].t = "elem"
  /\ Len(items[1].items[1].items) = 1
  /\ items[1].items[1].items[1].t = "cdata"
  /\ LET payload == items[1].items[1].items[1].s
     IN /\ ~Includes(payload, cdata_end_pattern)
        /\ ~Includes(payload, comment_start_pattern)
        /\ ~Includes(payload, metadata_start_pattern)

Payload(items) == items[1].items[1].items[1].s

\* the element with the CDATA section ends where its own closing tag ends
AfterCDataElement(items) ==
  Len(Render(items)) - Len(<<"<", "/">> \o items[1].name \o <<">">>)

CDataVerbatim ==
  /\ Finished(M) =>
       /\ Done
       /\ result = Map(<<[key |-> doc[1].name,
                          value |-> Map(<<[key |-> doc[1].items[1].name,
                                           value |-> parse_text_content(Payload(doc))]>>)]>>)
  /\ (pc = "return" /\ Len(stack) = 2) =>
       /\ Element(xml, Top(M)).text_content = Str(Payload(doc))
       /\ Element(xml, Top(M)).offset = AfterCDataElement(doc)

\* C6: for an element whose content is one CDATA section, whatever the payload
\* (without the end marker), the text content of the element is the payload
\* character for character, markup in the payload is neither parsed nor used as a
\* tag boundary, and parsing resumes right after the end marker.
C6_CDataVerbatim == IsCDataDoc(doc) => CDataVerbatim

\* the same for the payloads that hold no closing tag of an enclosing element
C6_CDataWithoutClosingTag ==
  (/\ IsCDataDoc(doc)
   /\ ~Includes(Payload(doc), <<"<", "/">> \o doc[1].name \o <<">">>)
   /\ ~Includes(Payload(doc), <<"<", "/">> \o doc[1].items[1].name \o <<">">>))
    => CDataVerbatim

(* ------------------------------------------------------------------ *)
(* C7                                                                  *)
(* ------------------------------------------------------------------ *)
IsBlock(it) == it.t \in {"comment", "meta"}

RECURSIVE Strip(_)
\* the document with its comment and metadata blocks deleted
Strip(items) ==
  IF items = <<>> THEN <<>>
  ELSE IF IsBlock(Head(items)) THEN Strip(Tail(items))
  ELSE <<[Head(items) EXCEPT !.items = Strip(Head(items).items)]>> \o Strip(Tail(items))

RECURSIVE AllItems(_)
\* the items of a document at every depth
AllItems(items) ==
  UNION {{items[i]} \cup AllItems(items[i].items) : i \in DOMAIN items}

HasBlocks(items) == \E it \in AllItems(items) : IsBlock(it)

HasCData(items) == \E it \in AllItems(items) : it.t = "cdata"

SameAsStripped ==
  LET stripped == xml_to_json(Render(Strip(doc)))
  IN /\ Failed = stripped.threw
     /\ result = stripped.value

\* C7: properly terminated comment and metadata blocks outside CDATA never change
\* the result: xml_to_json returns what it returns for the text with the blocks
\* deleted.
C7_BlocksIgnored ==
  (Finished(M) /\ HasBlocks(doc) /\ ~HasCData(doc)) => SameAsStripped

\* a block whose body does not start with the tail of its own end marker
IsPlainBlock(it) ==
  /\ it.t = "comment" => it.s = <<>> \/ Head(it.s) \notin {">", "-"}
  /\ it.t = "meta" => it.s = <<>> \/ Head(it.s) # ">"

\* the same for the documents whose blocks are all plain
C7_PlainBlocksIgnored ==
  (/\ Finished(M) /\ HasBlocks(doc) /\ ~HasCData(doc)
   /\ \A it \in AllItems(doc) : IsBlock(it) => IsPlainBlock(it))
    => SameAsStripped

(* ------------------------------------------------------------------ *)
(* C8 and C9                                                           *)
(* ------------------------------------------------------------------ *)
RECURSIVE IsTree(_)
\* elements and self-closing elements alone, text in the leaves alone
IsTree(items) ==
  \A i \in DOMAIN items :
    \/ items[i].t = "self"
    \/ /\ items[i].t = "elem"
       /\ \/ \A k \in DOMAIN items[i].items : items[i].items[k].t = "text"
          \/ IsTree(items[i].items)

HasSelfClosing(items) == \E it \in AllItems(items) : it.t = "self"

HasPaddedTag(items) == \E it \in AllItems(items) : it.t = "elem" /\ it.pad # <<>>

\* C8: an element whose header ends with "/" (<a/>, <a />) is accepted without a
\* closing tag, is stored under its trimmed name without the "/" as an empty map,
\* and parsing resumes right after its ">".
C8_SelfClosing ==
  (Finished(M) /\ IsTree(doc) /\ HasSelfClosing(doc) /\ ~HasPaddedTag(doc))
    => (Done /\ result = RootsAsMaps(doc))

\* what the parser does with a self-closing element: it takes "a/" for the tag
\* name and throws for the closing tag </a/> it does not find
C8_SelfClosingThrows ==
  (Finished(M) /\ IsTree(doc) /\ HasSelfClosing(doc) /\ ~HasPaddedTag(doc))
    => (Failed /\ error.kind = "ElementCloseNotFound")

\* C9: the tag name is the header trimmed of white space and the closing marker is
\* </ + trimmed name + >: <name > is closed by </name> and stored under name.
C9_TrimmedTagName ==
  (Finished(M) /\ IsTree(doc) /\ HasPaddedTag(doc) /\ ~HasSelfClosing(doc))
    => (Done /\ result = RootsAsMaps(doc))

\* what the parser does with <name >: it searches </name > and throws
C9_PaddedTagThrows ==
  (Finished(M) /\ IsTree(doc) /\ HasPaddedTag(doc) /\ ~HasSelfClosing(doc))
    => (Failed /\ error.kind = "ElementCloseNotFound")

(* ------------------------------------------------------------------ *)
(* C10                                                                 *)
(* ------------------------------------------------------------------ *)
IsBlankLeafDoc(items) == IsLeafDoc(items) /\ IsWhite(LeafBody(items))

\* C10: an element without child elements whose body is empty or white space has
\* the empty string as its value, never null, an empty map or the number 0.
C10_BlankLeaf ==
  (Done /\ IsBlankLeafDoc(doc)) => LeafValue(doc, result) = Str(<<>>)

\* the text content parse_xml_element returns for such an element is the empty
\* string, and the value stored for it as a child is the empty string
C10_BlankTextContent ==
  /\ (pc = "return" /\ IsBlankLeafDoc(doc) /\ Top(M).tag_name = TheLeaf(doc).name)
       => Element(xml, Top(M)).text_content = Str(<<>>)
  /\ (Done /\ IsBlankLeafDoc(doc) /\ IsChildLeafDoc(doc))
       => LeafValue(doc, result) = Str(<<>>)

(* ------------------------------------------------------------------ *)
(* json_to_xml: the serializer, and a round trip through it            *)
(* ------------------------------------------------------------------ *)
RECURSIVE NatToString(_)
\* the decimal digits of a natural number
NatToString(n) ==
  IF n < 10 THEN <<Digits[n + 1]>> ELSE Append(NatToString(n \div 10), Digits[(n % 10) + 1])

Zeros(n) == [i \in 1 .. n |-> "0"]

\* Number::toString of the finite Number m * 10^e (m not ending in 0)
NumberToString(m, e) ==
  LET sign == IF m < 0 THEN <<"-">> ELSE <<>>
      digits == NatToString(IF m < 0 THEN 0 - m ELSE m)
      k == Len(digits)
      n == k + e
      exponent == IF n - 1 < 0 THEN <<"-">> \o NatToString(1 - n) ELSE <<"+">> \o NatToString(n - 1)
  IN IF m = 0 THEN <<"0">>
     ELSE IF k <= n /\ n <= 21 THEN sign \o digits \o Zeros(n - k)
     ELSE IF 0 < n /\ n <= 21
       THEN sign \o SubSeq(digits, 1, n) \o <<".">> \o SubSeq(digits, n + 1, k)
     ELSE IF -6 < n /\ n <= 0 THEN sign \o <<"0", ".">> \o Zeros(0 - n) \o digits
     ELSE IF k = 1 THEN sign \o digits \o <<"e">> \o exponent
     ELSE sign \o <<digits[1], ".">> \o SubSeq(digits, 2, k) \o <<"e">> \o exponent

\* the text of a scalar: a string verbatim, a Number in its canonical form
ScalarText(value) ==
  CASE value.kind = "str" -> value.v
    [] value.kind = "num" -> NumberToString(value.v[1], value.v[2])
    [] value.kind = "inf" -> (IF value.v[1] < 0 THEN <<"-">> ELSE <<>>) \o InfinityWord

initial_indent == <<>>

indent_step == <<" ", " ">>

RECURSIVE json_to_xml_entries(_, _)
RECURSIVE json_to_xml_element(_, _, _)
\* one element for a key and a value that is no array
json_to_xml_element(key, value, indent) ==
  IF value.kind = "map"
  THEN IF value.v = <<>>
       THEN indent \o <<"<">> \o key \o <<"/", ">", "\n">>
       ELSE indent \o <<"<">> \o key \o <<">", "\n">>
            \o json_to_xml_entries(value.v, indent \o indent_step)
            \o indent \o <<"<", "/">> \o key \o <<">", "\n">>
  ELSE indent \o <<"<">> \o key \o <<">">> \o ScalarText(value)
       \o <<"<", "/">> \o key \o <<">", "\n">>

\* the entries of a map in insertion order, an array as one element per entry
json_to_xml_entries(entries, indent) ==
  IF entries = <<>> THEN <<>>
  ELSE LET key == Head(entries).key
           value == Head(entries).value
           first == IF value.kind = "arr"
                    THEN Flatten([i \in 1 .. Len(value.v) |->
                                    json_to_xml_element(key, value.v[i], indent)])
                    ELSE json_to_xml_element(key, value, indent)
       IN first \o json_to_xml_entries(Tail(entries), indent)

json_to_xml(object) == json_to_xml_entries(object.v, initial_indent)

\* the XML text of the usage example and of the serializer test
ReadmeDoc ==
  LET nl1 == Text(<<"\n", " ", " ">>)
      nl2 == Text(<<"\n", " ", " ", " ", " ">>)
      leaf(name, s) == Elem(name, <<Text(s)>>)
      object(x, y) ==
        Elem(<<"o", "b", "j", "e", "c", "t">>, <<nl2, leaf(<<"x">>, x), nl2, leaf(<<"y">>, y), nl1>>)
  IN <<Text(<<"\n">>),
       Elem(<<"a", "n", "n", "o", "t", "a", "t", "i", "o", "n">>,
            <<nl1, leaf(<<"f", "o", "l", "d", "e", "r">>, <<"i", "m", "a", "g", "e", "s">>),
              nl1, leaf(<<"f", "i", "l", "e", "n", "a", "m", "e">>, <<"m", "a", "k", "s", "s", "s", "k", "s", "k", "s", "s", "s", "0", ".", "p", "n", "g">>),
              nl1, Elem(<<"s", "i", "z", "e">>, <<nl2, leaf(<<"w", "i", "d", "t", "h">>, <<"5", "1", "2">>),
                                  nl2, leaf(<<"h", "e", "i", "g", "h", "t">>, <<"3", "6", "6">>), nl1>>),
              nl1, object(<<"7", "9">>, <<"1", "0", "5">>),
              nl1, object(<<"1", "8", "5">>, <<"1", "0", "0">>),
              Text(<<"\n">>)>>),
       Text(<<"\n">>)>>

\* the object of the usage example and of the serializer test
ReadmeObject ==
  LET en(key, value) == [key |-> key, value |-> value]
      object(x, y) == Map(<<en(<<"x">>, Num(1, x, 0)), en(<<"y">>, Num(1, y, 0))>>)
  IN Map(<<en(<<"a", "n", "n", "o", "t", "a", "t", "i", "o", "n">>,
              Map(<<en(<<"f", "o", "l", "d", "e", "r">>, Str(<<"i", "m", "a", "g", "e", "s">>)),
                    en(<<"f", "i", "l", "e", "n", "a", "m", "e">>, Str(<<"m", "a", "k", "s", "s", "s", "k", "s", "k", "s", "s", "s", "0", ".", "p", "n", "g">>)),
                    en(<<"s", "i", "z", "e">>, Map(<<en(<<"w", "i", "d", "t", "h">>, Num(1, 512, 0)),
                                     en(<<"h", "e", "i", "g", "h", "t">>, Num(1, 366, 0))>>)),
                    en(<<"o", "b", "j", "e", "c", "t">>, Arr(<<object(79, 105), object(185, 100)>>))>>))>>)

RoundTripDocs == {d \in Docs \cup {ReadmeDoc} : ~xml_to_json(Render(d)).threw}

\* an object returned by xml_to_json, about to be serialized
RoundTripInit ==
  /\ doc \in RoundTripDocs
  /\ text = <<>>
  /\ pc = "object"
  /\ xml = <<>>
  /\ offset = 0
  /\ properties = <<>>
  /\ stack = <<>>
  /\ arg = 0
  /\ result = xml_to_json(Render(doc)).value
  /\ error = NoError
  /\ merged = <<>>

\* xml_to_json(json_to_xml(result)): the serializer, then the call of the parser
JsonToXml ==
  /\ pc = "object"
  /\ text' = json_to_xml(result)
  /\ pc' = "comments"
  /\ xml' = text'
  /\ result' = Null
  /\ UNCHANGED <<doc, offset, properties, stack, arg, error, merged>>

RoundTripNext == JsonToXml \/ Next

RoundTripSpec == RoundTripInit /\ [][RoundTripNext]_vars

(* ------------------------------------------------------------------ *)
(* C11                                                                 *)
(* ------------------------------------------------------------------ *)
RECURSIVE Strings(_)
\* the string values of a value, at every depth
Strings(value) ==
  CASE value.kind = "str" -> {value.v}
    [] value.kind = "map" -> UNION {Strings(value.v[i].value) : i \in DOMAIN value.v}
    [] value.kind = "arr" -> UNION {Strings(value.v[i]) : i \in DOMAIN value.v}
    [] OTHER -> {}

NoMarkup(value) ==
  \A t \in Strings(value) :
    ~Includes(t, <<"<">>) /\ ~Includes(t, <<"&">>) /\ ~Includes(t, cdata_end_pattern)

RECURSIVE HasEmptyMap(_)
\* some entry of the value, at any depth, is an empty map
HasEmptyMap(value) ==
  CASE value.kind = "map" ->
         \E i \in DOMAIN value.v : value.v[i].value = Map(<<>>) \/ HasEmptyMap(value.v[i].value)
    [] value.kind = "arr" ->
         \E i \in DOMAIN value.v : value.v[i] = Map(<<>>) \/ HasEmptyMap(value.v[i])
    [] OTHER -> FALSE

\* the object that was serialized: what xml_to_json returned for the document
Parsed == xml_to_json(Render(doc)).value

\* C11: for every object x returned by xml_to_json whose text values hold no "<",
\* "&" or "]]>", xml_to_json(json_to_xml(x)) returns an object equal to x.
C11_RoundTrip ==
  (Finished(M) /\ NoMarkup(Parsed)) => (Done /\ result = Parsed)

\* the same for the objects without an empty map and without a string that starts
\* or ends with white space
C11_RoundTripOfTrimmed ==
  (/\ Finished(M) /\ NoMarkup(Parsed) /\ ~HasEmptyMap(Parsed)
   /\ \A t \in Strings(Parsed) : Trim(t) = t)
    => (Done /\ result = Parsed)

(* ------------------------------------------------------------------ *)
(* C12                                                                 *)
(* ------------------------------------------------------------------ *)
RECURSIVE Lines(_, _)
RECURSIVE LinesOfElement(_, _, _)
\* the lines of an element at a depth, each a pair of its depth and its text
LinesOfElement(key, value, depth) ==
  IF value.kind = "map" /\ value.v = <<>>
    THEN <<<<depth, <<"<">> \o key \o <<"/", ">">>>>>>
  ELSE IF value.kind = "map"
    THEN <<<<depth, <<"<">> \o key \o <<">">>>>>>
         \o Lines(value.v, depth + 1)
         \o <<<<depth, <<"<", "/">> \o key \o <<">">>>>>>
  ELSE <<<<depth, <<"<">> \o key \o <<">">> \o ScalarText(value)
                  \o <<"<", "/">> \o key \o <<">">>>>>>

\* the lines of the entries of a map, in insertion order
Lines(entries, depth) ==
  Flatten([i \in 1 .. Len(entries) |->
             IF entries[i].value.kind = "arr"
             THEN Flatten([k \in 1 .. Len(entries[i].value.v) |->
                             LinesOfElement(entries[i].key, entries[i].value.v[k], depth)])
             ELSE LinesOfElement(entries[i].key, entries[i].value, depth)])

Indent(depth) == Flatten([i \in 1 .. depth |-> indent_step])

C13_NoElement ==
  ~Includes(text, <<"<">>) =>
    /\ pc \in {"comments", "metadata", "begin", "error"}
    /\ stack = <<>>
    /\ merged = <<>>
    /\ result = Null
    /\ Finished(M) => (Failed /\ error.kind = "EmptyDocument")

\* a text of some characters, none of them "<", was refused
C13_Witness ==
  /\ ~Includes(text, <<"<">>)
  /\ Len(text) = MaxTextLen
  /\ Failed
  /\ error.kind = "EmptyDocument"

(* ------------------------------------------------------------------ *)
(* C14                                                                 *)
(* ------------------------------------------------------------------ *)
\* the header that a call of parse_xml_element at an offset reads: the index of
\* its "<" and of its ">", or -1
HeaderStart(t, from) == IndexOf(t, <<"<">>, from)

HeaderEnd(t, from) ==
  IF HeaderStart(t, from) = -1 THEN -1 ELSE IndexOf(t, <<">">>, HeaderStart(t, from) + 1)

\* the closing marker of that header does not occur at or after the content start
ClosingMissing(t, from) ==
  /\ HeaderEnd(t, from) # -1
  /\ ~Includes(SliceFrom(t, HeaderEnd(t, from) + 1),
               <<"<", "/">> \o Slice(t, HeaderStart(t, from) + 1, HeaderEnd(t, from)) \o <<">">>)

\* C14: when the closing marker </tag_name> of an element does not occur at or
\* after its content start, the call fails with ElementCloseNotFound and the
\* content-start offset, before any content of the element is parsed: for <a><b>
\* the failure is that of <a>, offset 3.
C14_CloseNotFound ==
  [][/\ (pc = "call" /\ ClosingMissing(xml, arg)) =>
          /\ pc' = "error"
          /\ error' = [kind |-> "ElementCloseNotFound", has_offset |-> TRUE,
                       offset |-> HeaderEnd(xml, arg) + 1]
          /\ stack' = stack
          /\ properties' = properties
     /\ (pc' = "error" /\ error'.kind = "ElementCloseNotFound") =>
          (pc = "call" /\ ClosingMissing(xml, arg))
     /\ (text = <<"<", "a", ">", "<", "b", ">">> /\ pc' = "error") =>
          (error'.kind = "ElementCloseNotFound" /\ error'.offset = 3 /\ stack' = <<>>)]_vars

\* <a><b> was refused for <a>, whose content starts at offset 3
C14_Witness ==
  /\ text = <<"<", "a", ">", "<", "b", ">">>
  /\ Failed
  /\ error.kind = "ElementCloseNotFound"
  /\ error.offset = 3
  /\ stack = <<>>

(* ------------------------------------------------------------------ *)
(* C15                                                                 *)
(* ------------------------------------------------------------------ *)
\* the pattern stands in the text at an index
At(t, pat, index) == index >= 0 /\ Slice(t, index, index + Len(pat)) = pat

PassStep(here, after, kind, start_pattern, end_pattern, from) ==
  LET start_index == IndexOf(xml, start_pattern, 0)
  IN /\ (pc = here /\ pc' = after) => ~Includes(xml', start_pattern)
     /\ pc = here =>
          ((pc' = "error") <=>
             (start_index # -1 /\ ~Includes(SliceFrom(xml, start_index + from), end_pattern)))
     /\ (pc = here /\ pc' = "error") =>
          error' = [kind |-> kind, has_offset |-> TRUE, offset |-> start_index]

\* C16: when remove_xml_comments returns its text holds no <!--, when
\* remove_xml_metadata returns its text holds no <?, and each pass fails with its
\* Unterminated error and the offset of the start marker exactly when at some
\* iteration the leftmost start marker has no end marker after it.
C16_Passes ==
  [][/\ PassStep("comments", "metadata", "CommentUnterminated",
                 comment_start_pattern, comment_end_pattern, Len(comment_start_pattern))
     /\ PassStep("metadata", "begin", "MetadataUnterminated",
                 metadata_start_pattern, metadata_end_pattern, Len(metadata_start_pattern))]_vars

\* the same with the end marker looked for from the index of the start marker
\* itself, so that <!--> and <?> count as whole blocks
C16_PassesFromStartIndex ==
  [][/\ PassStep("comments", "metadata", "CommentUnterminated",
                 comment_start_pattern, comment_end_pattern, 0)
     /\ PassStep("metadata", "begin", "MetadataUnterminated",
                 metadata_start_pattern, metadata_end_pattern, 0)]_vars

(* ------------------------------------------------------------------ *)
(* C17                                                                 *)
(* ------------------------------------------------------------------ *)
\* an element whose content is CDATA sections and child elements, some of each
IsMixedElement(it) ==
  /\ it.t = "elem"
  /\ \E i \in DOMAIN it.items : it.items[i].t = "cdata"
  /\ \E i \in DOMAIN it.items : it.items[i].t = "elem"
  /\ \A i \in DOMAIN it.items : it.items[i].t \in {"cdata", "elem"}

\* such an element as the root, or as the only child of the root
IsMixedDoc(items) ==
  /\ Len(items) = 1
  /\ \/ IsMixedElement(items[1])
     \/ items[1].t = "elem" /\ Len(items[1].items) = 1 /\ IsMixedElement(items[1].items[1])

IsMixedChildDoc(items) == IsMixedDoc(items) /\ ~IsMixedElement(items[1])

TheMixed(items) == IF IsMixedElement(items[1]) THEN items[1] ELSE items[1].items[1]

\* the value the returned object holds for the element of mixed content
MixedValue(items, object) ==
  IF IsMixedElement(items[1]) THEN Get(object.v, items[1].name)
  ELSE Get(Get(object.v, items[1].name).v, TheMixed(items).name)

\* C17 as claimed: for an element that accumulates CDATA text and merges a child
\* element, the value stored for it is its map of properties, not the coerced text.
C17_PropertiesWin ==
  (Done /\ IsMixedDoc(doc)) =>
    MixedValue(doc, result) = PropertiesOf(TheMixed(doc).items)

\* C17: for a child element that accumulates CDATA text and merges a child
\* element, the value its parent stores is the coercion of the accumulated CDATA
\* text; the elements it merged are dropped.
C17_TextWins ==
  (Finished(M) /\ IsMixedChildDoc(doc)) =>
    /\ Done
    /\ MixedValue(doc, result) = parse_text_content(LeafText(TheMixed(doc).items))

\* the parent stored the text "x" of a child that had merged an element
C17_Witness ==
  /\ Done
  /\ IsMixedChildDoc(doc)
  /\ \E i \in DOMAIN TheMixed(doc).items :
       /\ TheMixed(doc).items[i].t = "elem"
       /\ \E k \in DOMAIN TheMixed(doc).items : k > i /\ TheMixed(doc).items[k].t = "cdata"
  /\ MixedValue(doc, result).kind = "str"

(* ------------------------------------------------------------------ *)
(* C18                                                                 *)
(* ------------------------------------------------------------------ *)
\* the names that are array indices in ascending numeric order, then the others
\* in the order of the sequence
IndexFirst(names) ==
  LET index == {i \in DOMAIN names : IsArrayIndex(names[i])}
      rank(i) == Cardinality({j \in index : DigitsValue(names[j], 10) < DigitsValue(names[i], 10)})
      n == Cardinality(index)
      others == SelectSeq(names, LAMBDA name : ~IsArrayIndex(name))
  IN [k \in 1 .. n |-> names[CHOOSE i \in index : rank(i) = k - 1]] \o others

\* the value stored for the i-th of the elements: the entry of its name, or the
\* member of that entry's array that stands for it
ValueOfElement(value, elems, i) ==
  LET same == {j \in DOMAIN elems : elems[j].name = elems[i].name}
      stored == Get(value.v, elems[i].name)
  IN IF Cardinality(same) = 1 THEN stored
     ELSE stored.v[Cardinality({j \in same : j <= i})]

RECURSIVE KeysFollow(_, _, _)
\* the keys of the map stored for the elements among the items, and of every map
\* below it, are the tag names in first-encounter order, the array indices among
\* them put first when index_first
KeysFollow(items, value, index_first) ==
  LET elems == Elements(items)
      names == FirstNames(elems, <<>>)
  IN /\ value.kind = "map"
     /\ [i \in DOMAIN value.v |-> value.v[i].key]
          = (IF index_first THEN IndexFirst(names) ELSE names)
     /\ \A i \in DOMAIN elems :
          HasChildElements(elems[i]) =>
            KeysFollow(elems[i].items, ValueOfElement(value, elems, i), index_first)

CursorWithinBoundary ==
  /\ \A i \in DOMAIN stack :
       (i < Len(stack) \/ pc # "return") => stack[i].offset <= stack[i].element_end_index
  /\ (pc = "call" /\ stack # <<>>) => arg < Top(M).element_end_index
  /\ Failed => error.kind # "ElementNextNotFound"
  /\ pc = "return" =>
       Top(M).offset = Top(M).element_end_index + Len(Top(M).closing_tag)

\* C19: inside parse_xml_element the cursor never moves past the end boundary of
\* the element: every CDATA section and child element consumed ends at or before
\* it, the loop finishes by finding the next "<" at the boundary, and the offset
\* returned is the boundary plus the length of the closing marker.
C19_CursorWithinBoundary == CursorWithinBoundary

\* the same for the plain documents in which no element has a descendant of its
\* own name, and for a CDATA section that holds no closing tag of an enclosing
\* element
C19_WithinBoundaryOfDistinct ==
  (\/ IsPlain(doc) /\ NoSelfNesting(doc)
   \/ /\ IsCDataDoc(doc)
      /\ ~Includes(Payload(doc), <<"<", "/">> \o doc[1].name \o <<">">>)
      /\ ~Includes(Payload(doc), <<"<", "/">> \o doc[1].items[1].name \o <<">">>))
    => CursorWithinBoundary

(* ------------------------------------------------------------------ *)
(* C20                                                                 *)
(* ------------------------------------------------------------------ *)
\* parse_xml_element has been called, or is about to be
Parsing == pc \in {"call", "content", "return", "done"}

\* the first call of parse_xml_element is made with offset 0
FirstCallAtStart == (pc = "call" /\ stack = <<>> /\ merged = <<>>) => arg = 0

\* C20: the text handed to parse_xml_element holds neither <!-- nor <?, for every
\* input on which both passes succeed, and the first call starts at offset 0.
C20_NoMarkersHandedOver ==
  Parsing =>
    /\ ~Includes(xml, comment_start_pattern)
    /\ ~Includes(xml, metadata_start_pattern)
    /\ FirstCallAtStart

\* what the passes do establish: no <? is left and the first call starts at 0; and
\* no <!-- is left when the comments pass found the text it returned unchanged by
\* the metadata pass
C20_NoMetadataHandedOver ==
  Parsing =>
    /\ ~Includes(xml, metadata_start_pattern)
    /\ FirstCallAtStart
    /\ ~Includes(text, metadata_start_pattern) => ~Includes(xml, comment_start_pattern)

(* ------------------------------------------------------------------ *)
(* C21                                                                 *)
(* ------------------------------------------------------------------ *)
\* a child element returns a text_content to its parent, which coerces it
Coercing ==
  /\ pc = "return"
  /\ Len(stack) > 1
  /\ Element(xml, Top(M)).text_content # Null

\* the string handed to parse_text_content
CoercedText == Element(xml, Top(M)).text_content.v

\* the text_content of the returning frame was accumulated from CDATA sections
FromCData == Top(M).text_content # Null

\* C21: every string the element parser passes to parse_text_content has no
\* leading and no trailing white space, whether it is a raw body or accumulated
\* CDATA payloads; a text of white space only is never coerced to a number.
C21_CoercedTextIsTrimmed ==
  Coercing =>
    /\ Trim(CoercedText) = CoercedText
    /\ (CoercedText # <<>> /\ Trim(CoercedText) = <<>>)
         => parse_text_content(CoercedText).kind # "num"

\* what holds: a raw body is trimmed before it is coerced; accumulated CDATA
\* payloads are coerced as they stand, and a blank one that is not empty gives 0
C21_RawBodyIsTrimmed ==
  Coercing =>
    /\ ~FromCData => Trim(CoercedText) = CoercedText
    /\ FromCData => CoercedText = Top(M).text_content.v
    /\ (CoercedText # <<>> /\ Trim(CoercedText) = <<>>)
         => /\ FromCData
            /\ parse_text_content(CoercedText) = Num(1, 0, 0)

(* ------------------------------------------------------------------ *)
(* C22                                                                 *)
(* ------------------------------------------------------------------ *)
\* xml_to_json runs in one thread, which takes its next step as long as there is
\* one: weak fairness of Next, with ENABLED <<Next>>_vars written as the state
\* predicate it equals, xml_to_json has neither returned nor thrown
TerminationSpec ==
  /\ Init
  /\ [][Next]_vars
  /\ ([]<>(Done \/ Failed) \/ []<><<Next>>_vars)

\* the steps a machine can still take are bounded by what is left of the text: the
\* characters a pass can still remove, then those after the cursor
Variant(m) ==
  IF m.pc = "comments" THEN 3 * Len(m.xml) + 6
  ELSE IF m.pc = "metadata" THEN 3 * Len(m.xml) + 5
  ELSE IF m.pc = "begin" THEN 3 * Len(m.xml) + 4
  ELSE IF m.pc = "return" THEN 3 * (Len(m.xml) - Top(m).offset) + 3
  ELSE IF m.pc = "content" THEN 3 * (Len(m.xml) - Top(m).offset) + 2
  ELSE IF m.pc = "call" THEN 3 * (Len(m.xml) - m.arg) + 1
  ELSE 0

\* the next step leaves less to do
Decreases == ~Finished(M) => Variant(Step(M)) < Variant(M) /\ Variant(Step(M)) >= 0

\* an iteration of a preprocessing pass that goes round the loop again
PassIteration == pc \in {"comments", "metadata"} /\ pc' = pc

\* an iteration of the CDATA loop that took a section
CDataStep == pc = "content" /\ pc' = "content" /\ Len(stack') = Len(stack)

\* parse_xml_element is entered with offset arg and reaches its content loop
ElementEntered == pc = "call" /\ pc' = "content"

\* the content loop finds the closing tag and parse_xml_element returns
ElementReturns == pc = "content" /\ pc' = "return"

\* a child has returned and the content loop of its parent goes on
ChildReturned == pc = "return" /\ Len(stack) > 1 /\ pc' = "content"

\* a root has returned to the loop of xml_to_json
RootReturned == pc = "return" /\ Len(stack) = 1 /\ pc' \in {"call", "done"}

\* the index of the "<" a frame was opened at
TagStart(frame) == frame.content_start_index - Len(frame.tag_name) - 2

Progress ==
  /\ PassIteration => Len(xml') < Len(xml)
  /\ CDataStep => Top(M)'.offset > Top(M).offset /\ Top(M)'.offset <= Len(xml)
  /\ ElementEntered =>
       /\ TagStart(Top(M)') >= arg
       /\ Top(M)'.element_end_index >= Top(M)'.content_start_index
  /\ ElementReturns =>
       /\ Top(M)'.offset > TagStart(Top(M))
       /\ Top(M)'.offset <= Len(xml)
  /\ ChildReturned =>
       /\ Top(M)'.offset > stack[Len(stack) - 1].offset
       /\ Top(M)'.offset = Top(M).offset
  /\ RootReturned => offset' > offset /\ offset' = Top(M).offset /\ offset' <= Len(xml)

\* C22: every call of xml_to_json ends, with a map or with an error: an iteration
\* of a pass shortens the text, a CDATA step advances the cursor, and a call of
\* parse_xml_element that returns gives an offset greater than the one it was
\* given and at most the length of the text.
C22_Terminates ==
  /\ <>(Done \/ Failed)
  /\ []Decreases
  /\ [][Progress]_vars

\* a call that took every kind of step: a block was removed, CDATA sections were
\* taken by a child, and the second root returned at the end of the shortened text
C22_Witness ==
  /\ Done
  /\ Len(xml) < Len(text)
  /\ Includes(xml, cdata_start_pattern)
  /\ Len(merged) = 2
  /\ offset = Len(xml)
  /\ result.kind = "map"

====
